---- MODULE Spec2Model ----
(***************************************************************************)
(* A model of the analysis engine of the English Text Analyzer web         *)
(* application: AnalysisEngineWrapper (input validation, result cache,     *)
(* sequential per-module analysis), GeminiAPIClient (retry / backoff /     *)
(* error classification) and RateLimiter.                                  *)
(*                                                                         *)
(* JavaScript values are represented as follows.                           *)
(*   - a text is a sequence of runs [ch |-> code unit, n |-> repetitions], *)
(*     so that texts of 50,000 characters can be written down;             *)
(*   - an Error message is a sequence of phrases, and                      *)
(*     String.prototype.includes(p) is membership of the phrase p;         *)
(*   - a cache key (a string) is the sequence of its pieces: base-36       *)
(*     digits, "_", module names and ",";                                  *)
(*   - time is in milliseconds.                                            *)
(***************************************************************************)
EXTENDS Integers, Sequences, FiniteSets, TLC

(***************************************************************************)
(* Bounds of the model.                                                    *)
(***************************************************************************)
\* A run is explored under one of two budgets (see Budgets): MaxCalls
\* analyzeText invocations during which the endpoint fails at most once and
\* only with an auth error, or one invocation during which at most MaxFaults
\* responses of the endpoint, of any kind, are not a well-formed success.
MaxCalls == 2
MaxFaults == 3
\* the time a fetch takes to settle, in milliseconds
FetchLatency == 400
\* a response given to the interpreter has at most MaxBullets bullet lines
\* under its "1. Academic Vocabulary:" heading
MaxBullets == 2
\* a direct caller of the RateLimiter makes at most MaxWaits waitIfNeeded
\* calls, one after another, and pauses at most MaxIdles times between them
MaxWaits == 62
MaxIdles == 2
\* concurrent analyzeText invocations on one engine
MaxTasks == 2

(***************************************************************************)
(* Program constants.                                                      *)
(***************************************************************************)
MaxTextLength == 50000
retryAttempts == 3
retryDelay == 1000
requestsPerMinute == 60
WindowMs == 60000
BufferMs == 100
\* RateLimiter.constructor: this.minInterval = 60000 / requestsPerMinute
minInterval == WindowMs \div requestsPerMinute

(***************************************************************************)
(* Texts.                                                                  *)
(***************************************************************************)
Run(c, k) == [ch |-> c, n |-> k]

\* code units String.prototype.trim() and the regular expression \s remove
IsWhitespace(c) == c \in {9, 10, 11, 12, 13, 32}

RECURSIVE SumRuns(_, _)
SumRuns(text, i) ==
    IF i > Len(text) THEN 0 ELSE text[i].n + SumRuns(text, i + 1)

\* text.length
Length(text) == SumRuns(text, 1)

RECURSIVE TrimStart(_)
TrimStart(text) ==
    IF text # <<>> /\ IsWhitespace(Head(text).ch)
    THEN TrimStart(Tail(text))
    ELSE text

RECURSIVE TrimEnd(_)
TrimEnd(text) ==
    IF text # <<>> /\ IsWhitespace(text[Len(text)].ch)
    THEN TrimEnd(SubSeq(text, 1, Len(text) - 1))
    ELSE text

\* text.trim()
Trim(text) == TrimEnd(TrimStart(text))

\* text.trim() ? text.trim().split(/\s+/).length : 0
countWords(text) ==
    LET t == Trim(text) IN
    IF Length(t) = 0 THEN 0
    ELSE Cardinality({i \in DOMAIN t :
            /\ ~IsWhitespace(t[i].ch)
            /\ (i = 1 \/ IsWhitespace(t[i - 1].ch))})

(***************************************************************************)
(* simpleHash: hash = ((hash << 5) - hash) + char; hash = hash & hash,     *)
(* a 32-bit two's complement accumulator, then Math.abs and toString(36).  *)
(***************************************************************************)
\* the signed 32-bit integer with the 16-bit halves hi and lo
Int32(hi, lo) == (IF hi >= 32768 THEN hi - 65536 ELSE hi) * 65536 + lo

\* one iteration of the loop: 31 * hash + char, wrapped to 32 bits; the
\* product is formed on 16-bit halves so that no intermediate value leaves
\* the 32-bit range
HashStep(hash, char) ==
    LET lo == hash % 65536
        hi == (hash \div 65536) % 65536
        s  == 31 * lo + char
    IN  Int32((31 * hi + (s \div 65536)) % 65536, s % 65536)

\* k iterations of the loop over k equal characters
RECURSIVE HashRun(_, _, _)
HashRun(hash, char, k) ==
    IF k = 0 THEN hash
    ELSE IF k = 1 THEN HashStep(hash, char)
    ELSE LET mid == HashRun(hash, char, k \div 2)
         IN  IF mid = mid THEN HashRun(mid, char, k - (k \div 2)) ELSE mid

RECURSIVE HashLoop(_, _, _)
HashLoop(text, i, hash) ==
    IF i > Len(text) THEN hash
    ELSE LET h == HashRun(hash, text[i].ch, text[i].n)
         IN  IF h = h THEN HashLoop(text, i + 1, h) ELSE h

Digits36 ==
    << "0", "1", "2", "3", "4", "5", "6", "7", "8", "9", "a", "b",
       "c", "d", "e", "f", "g", "h", "i", "j", "k", "l", "m", "n",
       "o", "p", "q", "r", "s", "t", "u", "v", "w", "x", "y", "z" >>

\* Number.prototype.toString(36) of a number >= 0
RECURSIVE ToString36(_)
ToString36(v) ==
    IF v < 36 THEN << Digits36[v + 1] >>
    ELSE Append(ToString36(v \div 36), Digits36[(v % 36) + 1])

\* Math.abs(hash).toString(36); for a negative hash the last digit and the
\* quotient of |hash| are taken from hash itself, |hash| may be 2^31
AbsToString36(hash) ==
    IF hash >= 0 THEN ToString36(hash)
    ELSE LET r == (36 - (hash % 36)) % 36
             q == -((hash + r) \div 36)
         IN  IF q = 0 THEN << Digits36[r + 1] >>
             ELSE Append(ToString36(q), Digits36[r + 1])

simpleHash(str) == AbsToString36(HashLoop(str, 1, 0))

(***************************************************************************)
(* Inputs of the model: the texts and the options.modules a caller passes. *)
(***************************************************************************)
\* "", "  ", "Aa", "BB", and "aaa...a" of 50,000 and of 50,001 characters
Texts ==
    { << >>,
      << Run(32, 2) >>,
      << Run(65, 1), Run(97, 1) >>,
      << Run(66, 2) >>,
      << Run(97, MaxTextLength) >>,
      << Run(97, MaxTextLength + 1) >> }

\* the hash of each text of the model, computed once
HashOf == [t \in Texts |-> simpleHash(t)]

\* analyzeText's default for options.modules
DefaultModules ==
    << "vocabulary", "grammar", "structure", "content", "complexity" >>

\* the keys of AnalysisPrompts.prompts
KnownModules == { DefaultModules[i] : i \in DOMAIN DefaultModules }

\* the arrays a caller passes as options.modules; "sentiment" has no prompt
ModuleLists ==
    { << >>,
      << "vocabulary" >>,
      << "sentiment" >>,
      << "vocabulary", "grammar" >>,
      << "grammar", "vocabulary" >> }

\* the options a caller passes: without modules, or with one of the arrays
Options ==
    { [given |-> FALSE, modules |-> << >>] }
        \cup { [given |-> TRUE, modules |-> m] : m \in ModuleLists }

(***************************************************************************)
(* generateCacheKey.                                                       *)
(***************************************************************************)
\* the module names of the model in the order of Array.prototype.sort's
\* default comparison (UTF-16 code units of the strings)
SortOrder ==
    << "complexity", "content", "grammar", "sentiment", "structure",
       "vocabulary" >>

Rank(name) == CHOOSE i \in DOMAIN SortOrder : SortOrder[i] = name

RECURSIVE Insert(_, _)
Insert(sorted, name) ==
    IF sorted = << >> THEN << name >>
    ELSE IF Rank(name) < Rank(Head(sorted)) THEN << name >> \o sorted
    ELSE << Head(sorted) >> \o Insert(Tail(sorted), name)

\* modules.sort()
RECURSIVE Sort(_)
Sort(modules) ==
    IF modules = << >> THEN << >>
    ELSE Insert(Sort(SubSeq(modules, 1, Len(modules) - 1)),
                modules[Len(modules)])

\* modules.join(',')
RECURSIVE Join(_)
Join(modules) ==
    IF modules = << >> THEN << >>
    ELSE IF Len(modules) = 1 THEN modules
    ELSE << Head(modules), "," >> \o Join(Tail(modules))

generateCacheKey_Unsorted(text, modules) ==
    HashOf[text] \o << "_" >> \o Join(modules)

\* `${textHash}_${modules.sort().join(',')}`
generateCacheKey(text, modules) ==
    HashOf[text] \o << "_" >> \o Join(Sort(modules))

(***************************************************************************)
(* Error messages.                                                         *)
(***************************************************************************)
\* message.includes(phrase)
Includes(message, phrase) == \E i \in DOMAIN message : message[i] = phrase

EmptyTextMessage == << "Text cannot be empty" >>
TooLongMessage ==
    << "Text is too long. Please use texts under 50,000 characters." >>
RateLimitMessage == << "Rate limit exceeded. Please try again later." >>
InvalidRequestMessage(detail) == << "Invalid request", ": " >> \o detail
AuthMessage ==
    << "API key", " is invalid or access is denied. Please check your ",
       "API key", "." >>
RequestFailedMessage(status) ==
    << "API request failed", ": ", ToString(status) >>
SafetyMessage ==
    << "Content was blocked due to ", "safety concerns",
       ". Please try with different text." >>
InvalidFormatMessage == << "Invalid response format from API" >>
AnalysisFailedMessage(last) ==
    << "Analysis failed after ", ToString(retryAttempts), " attempts", ": " >>
        \o last

(***************************************************************************)
(* The endpoint's answers to one fetch.                                    *)
(***************************************************************************)
\* a JavaScript string, as the sequence of its characters (each a string of
\* one character), and the value undefined
StringValue(chars) == [type |-> "string", chars |-> chars]
UndefinedValue == [type |-> "undefined", chars |-> << >>]

\* the characters '\n' and U+2022 (the bullet)
Newline == "\n"
Bullet == "U+2022"

\* fetch rejects (transport failure) with an Error of this message
Rejected(message) ==
    [kind |-> "reject", status |-> 0, message |-> message,
     candidate |-> FALSE, finishReason |-> "", part |-> FALSE,
     text |-> UndefinedValue]

\* a response with !response.ok; message is errorData.error?.message,
\* << >> when the body has none
HttpError(status, message) ==
    [kind |-> "http", status |-> status, message |-> message,
     candidate |-> FALSE, finishReason |-> "", part |-> FALSE,
     text |-> UndefinedValue]

\* a 2xx response; candidate: data.candidates[0] exists; part:
\* candidate.content.parts[0] exists; text: its text property
Success(candidate, finishReason, part, text) ==
    [kind |-> "http", status |-> 200, message |-> << >>,
     candidate |-> candidate, finishReason |-> finishReason, part |-> part,
     text |-> text]

\* "1. Academic Vocabulary:\n- analyze"
SampleText ==
    StringValue(
        << "1", ".", " ", "A", "c", "a", "d", "e", "m", "i", "c", " ", "V",
           "o", "c", "a", "b", "u", "l", "a", "r", "y", ":", Newline, "-",
           " ", "a", "n", "a", "l", "y", "z", "e" >>)

WellFormed == Success(TRUE, "STOP", TRUE, SampleText)

Responses ==
    { WellFormed,
      Success(TRUE, "STOP", TRUE, UndefinedValue),
      Success(TRUE, "SAFETY", FALSE, UndefinedValue),
      Success(FALSE, "", FALSE, UndefinedValue),
      Rejected(<< "Failed to ", "fetch" >>),
      HttpError(429, << >>),
      HttpError(400, << >>),
      HttpError(400, << "Unable to ", "fetch", " the requested model" >>),
      HttpError(403, << >>),
      HttpError(500, << >>) }

IsFault(resp) == resp # WellFormed

\* what a run explores: the number of analyzeText invocations, the number
\* of responses that are faults, and whether the endpoint's faults are of
\* any kind or auth errors only
Budgets ==
    { [calls |-> MaxCalls, faults |-> 1, anyFault |-> FALSE],
      [calls |-> 1, faults |-> MaxFaults, anyFault |-> TRUE] }

\* the responses the endpoint gives under a budget
ResponsesUnder(b) ==
    IF b.anyFault THEN Responses ELSE { WellFormed, HttpError(403, << >>) }

(***************************************************************************)
(* GeminiAPIClient.generateContent: what one loop iteration does with the  *)
(* settled fetch.                                                          *)
(***************************************************************************)
Return(value) ==
    [do |-> "return", value |-> value, message |-> << >>, delay |-> 0]
Throw(message) ==
    [do |-> "throw", value |-> UndefinedValue, message |-> message,
     delay |-> 0]
DelayAndContinue(ms) ==
    [do |-> "continue", value |-> UndefinedValue, message |-> << >>,
     delay |-> ms]
Break ==
    [do |-> "break", value |-> UndefinedValue, message |-> << >>, delay |-> 0]

\* the try block
TryBlock(resp, attempt) ==
    IF resp.kind = "reject" THEN Throw(resp.message)
    ELSE IF resp.status < 200 \/ resp.status > 299 THEN
        IF resp.status = 429 THEN
            IF attempt < retryAttempts
            THEN DelayAndContinue(retryDelay * attempt)
            ELSE Throw(RateLimitMessage)
        ELSE IF resp.status = 400 THEN
            Throw(InvalidRequestMessage(
                IF resp.message # << >> THEN resp.message
                ELSE << "Bad request" >>))
        ELSE IF resp.status = 403 THEN Throw(AuthMessage)
        ELSE Throw(RequestFailedMessage(resp.status))
    ELSE IF resp.candidate /\ resp.finishReason = "SAFETY"
        THEN Throw(SafetyMessage)
    ELSE IF resp.candidate /\ resp.part THEN Return(resp.text)
    ELSE Throw(InvalidFormatMessage)

IsTransportError(message) ==
    Includes(message, "fetch") \/ Includes(message, "network")

IsFatal_NoSafety(message) ==
    Includes(message, "API key") \/ Includes(message, "Invalid request")

IsFatal_NoAuth(message) ==
    Includes(message, "Invalid request") \/ Includes(message, "safety concerns")

\* "Don't retry for certain errors"
IsFatal(message) ==
    \/ Includes(message, "API key")
    \/ Includes(message, "Invalid request")
    \/ Includes(message, "safety concerns")

CatchBlock_NoBreak(message, attempt) ==
    IF IsTransportError(message) /\ attempt < retryAttempts
    THEN DelayAndContinue(retryDelay * attempt)
    ELSE IF IsFatal(message) THEN Throw(message)
    ELSE DelayAndContinue(retryDelay * attempt)

\* the catch block, entered with error.message = message
CatchBlock(message, attempt) ==
    IF IsTransportError(message) /\ attempt < retryAttempts
    THEN DelayAndContinue(retryDelay * attempt)
    ELSE IF IsFatal(message) THEN Throw(message)
    ELSE IF attempt = retryAttempts THEN Break
    ELSE DelayAndContinue(retryDelay * attempt)

LoopCondition_OffByOne(attempt) == attempt < retryAttempts

\* the for loop's condition
LoopCondition(attempt) == attempt <= retryAttempts

(***************************************************************************)
(* AnalysisPrompts.getPrompt and the validation of analyzeText.            *)
(***************************************************************************)
getPrompt_NoFallback(module, text) == [template |-> module, text |-> text]

\* the prompt: a template and the embedded text
getPrompt(module, text) ==
    [template |-> IF module \in KnownModules THEN module ELSE "vocabulary",
     text |-> text]

ValidationError_NoTrim(text) ==
    IF Length(text) = 0 THEN EmptyTextMessage
    ELSE IF Length(text) > MaxTextLength THEN TooLongMessage
    ELSE << >>

ValidationError_OffByOne(text) ==
    IF Length(Trim(text)) = 0 THEN EmptyTextMessage
    ELSE IF Length(text) >= MaxTextLength THEN TooLongMessage
    ELSE << >>

\* the message analyzeText throws for the text, << >> when it throws none
ValidationError(text) ==
    IF Length(text) = 0 \/ Length(Trim(text)) = 0 THEN EmptyTextMessage
    ELSE IF Length(text) > MaxTextLength THEN TooLongMessage
    ELSE << >>

(***************************************************************************)
(* The state: one engine (cache, rate limiter, client), the clock, the     *)
(* analyzeText invocation in progress and what the finished ones did.      *)
(***************************************************************************)
VARIABLES
    now,          \* Date.now()
    cache,        \* AnalysisEngineWrapper.cache: key -> report
    requests,     \* RateLimiter.requests
    pc,           \* where the invocation is suspended, "idle" when none is
    timer,        \* the delay of the pending setTimeout
    call,         \* the locals of the analyzeText invocation
    gen,          \* the locals of the generateContent invocation
    lastGen,      \* the last generateContent invocation that settled
    fetchCount,   \* fetch calls issued so far
    waitCount,    \* waitIfNeeded calls made so far
    faults,       \* responses so far that were not well-formed successes
    budget,       \* the budget of the run, one of Budgets
    history,      \* the analyzeText invocations that settled, in order
    recorded,     \* every call time the RateLimiter has recorded, in order
    idles,        \* the times a caller of the RateLimiter has paused
    interp,       \* a processModuleResponse call: its arguments and result
    tasks         \* concurrent analyzeText invocations: the locals of each

vars ==
    << now, cache, requests, pc, timer, call, gen, lastGen, fetchCount,
       waitCount, faults, budget, history, recorded, idles, interp,
       tasks >>

NoEntries == [m \in {} |-> 0]

NoResults ==
    [text |-> << >>, wordCount |-> 0, charCount |-> 0, analysisDate |-> 0,
     processingTime |-> 0, entries |-> NoEntries]

NoCall ==
    [text |-> << >>, options |-> [given |-> FALSE, modules |-> << >>],
     modules |-> << >>, idx |-> 0, results |-> NoResults, startTime |-> 0,
     cacheKey |-> << >>, rlNow |-> 0, completedModules |-> 0,
     progress |-> << >>, fetches0 |-> 0, waits0 |-> 0,
     started |-> << >>, outcomes |-> << >>, fetchTimes |-> << >>,
     invokedAt |-> 0]

NoGen ==
    [prompt |-> [template |-> "", text |-> << >>], attempt |-> 0,
     lastError |-> << >>, responses |-> << >>, delays |-> << >>,
     fetches |-> 0, result |-> "none", value |-> UndefinedValue,
     message |-> << >>]

State ==
    [now |-> now, cache |-> cache, requests |-> requests, pc |-> pc,
     timer |-> timer, call |-> call, gen |-> gen, lastGen |-> lastGen,
     fetchCount |-> fetchCount, waitCount |-> waitCount, history |-> history,
     recorded |-> recorded]

Becomes(s) ==
    /\ now' = s.now
    /\ cache' = s.cache
    /\ requests' = s.requests
    /\ pc' = s.pc
    /\ timer' = s.timer
    /\ call' = s.call
    /\ gen' = s.gen
    /\ lastGen' = s.lastGen
    /\ fetchCount' = s.fetchCount
    /\ waitCount' = s.waitCount
    /\ history' = s.history
    /\ recorded' = s.recorded

\* no processModuleResponse call has been made
NoInterp ==
    [called |-> FALSE, module |-> "", response |-> UndefinedValue,
     outline |-> [given |-> FALSE, bullets |-> << >>],
     threw |-> FALSE, result |-> [module |-> ""]]

Init ==
    /\ now = 0
    /\ cache = [k \in {} |-> NoResults]
    /\ requests = << >>
    /\ pc = "idle"
    /\ timer = 0
    /\ call = NoCall
    /\ gen = NoGen
    /\ lastGen = NoGen
    /\ fetchCount = 0
    /\ waitCount = 0
    /\ faults = 0
    /\ budget \in Budgets
    /\ history = << >>
    /\ recorded = << >>
    /\ idles = 0
    /\ interp = NoInterp
    /\ tasks = << >>

(***************************************************************************)
(* analyzeText settles: it returns a report or throws.                     *)
(***************************************************************************)
Settle(s, threw, message, report) ==
    [s EXCEPT
        !.pc = "idle",
        !.timer = 0,
        !.call = NoCall,
        !.history = Append(@,
            [text |-> s.call.text,
             options |-> s.call.options,
             modulesAfter |-> s.call.modules,
             cacheKey |-> s.call.cacheKey,
             threw |-> threw,
             message |-> message,
             report |-> report,
             fetches |-> s.fetchCount - s.call.fetches0,
             waits |-> s.waitCount - s.call.waits0,
             progress |-> s.call.progress,
             started |-> s.call.started,
             outcomes |-> s.call.outcomes,
             fetchTimes |-> s.call.fetchTimes,
             invokedAt |-> s.call.invokedAt,
             settledAt |-> s.now])]

ShouldCache_SomeModule(results) ==
    \E m \in DOMAIN results.entries : "error" \notin DOMAIN results.entries[m]

\* Object.values(results).some(r => r && !r.error): text, wordCount,
\* charCount, analysisDate and processingTime are values of results too, and
\* none of them has an error property; analysisDate is a non-empty string
ShouldCache(results) ==
    \/ Length(results.text) > 0
    \/ results.wordCount # 0
    \/ results.charCount # 0
    \/ results.analysisDate \in Int
    \/ results.processingTime # 0
    \/ \E m \in DOMAIN results.entries :
            "error" \notin DOMAIN results.entries[m]

\* this.cache.set(cacheKey, results)
CacheSet(c, key, results) ==
    [k \in DOMAIN c \cup {key} |-> IF k = key THEN results ELSE c[k]]

\* the end of analyzeText, after the loop
Finish(s) ==
    LET results ==
            [s.call.results EXCEPT !.processingTime = s.now - s.call.startTime]
        stored ==
            IF ShouldCache(results)
            THEN [s EXCEPT !.cache = CacheSet(@, s.call.cacheKey, results)]
            ELSE s
    IN  Settle(stored, FALSE, << >>, results)

(***************************************************************************)
(* RateLimiter.waitIfNeeded followed by runModuleAnalysis, up to the       *)
(* fetch.                                                                  *)
(***************************************************************************)
Max(seq) == CHOOSE x \in { seq[i] : i \in DOMAIN seq } :
                \A i \in DOMAIN seq : seq[i] <= x
Min(seq) == CHOOSE x \in { seq[i] : i \in DOMAIN seq } :
                \A i \in DOMAIN seq : x <= seq[i]

\* one iteration of generateContent's loop begins: the fetch is issued
\* (call.fetchTimes: when the fetches of the invocation were issued)
IssueFetch(s) ==
    [s EXCEPT
        !.pc = "fetch",
        !.timer = 0,
        !.fetchCount = @ + 1,
        !.gen.fetches = @ + 1,
        !.call.fetchTimes = Append(@, s.now)]

\* runModuleAnalysis: the prompt, then generateContent up to its first fetch
\* (call.started: the modules whose analysis has been started, in order)
runModuleAnalysis(s) ==
    IssueFetch(
        [s EXCEPT
            !.gen =
                [NoGen EXCEPT
                    !.prompt =
                        getPrompt(s.call.modules[s.call.idx], s.call.text),
                    !.attempt = 1,
                    !.result = "pending"],
            !.call.started = Append(@, s.call.modules[s.call.idx])])

RecordRequest_NoPush(s) ==
    IF s.call.idx = 0
    THEN [s EXCEPT !.pc = "idle", !.timer = 0, !.call = NoCall]
    ELSE runModuleAnalysis(s)

\* this.requests.push(Date.now()), and waitIfNeeded returns: to the loop of
\* analyzeText (call.idx is the position in the loop), or to the caller
\* that called the limiter itself
RecordRequest(s) ==
    LET pushed ==
            [s EXCEPT
                !.requests = Append(@, s.now),
                !.recorded = Append(@,
                    [time |-> s.now, called |-> s.call.rlNow])]
    IN  IF s.call.idx = 0
        THEN [pushed EXCEPT !.pc = "idle", !.timer = 0, !.call = NoCall]
        ELSE runModuleAnalysis(pushed)

MinimumInterval_NoWait(s) == RecordRequest(s)

\* "Also ensure minimum interval between requests"
MinimumInterval(s) ==
    IF s.requests # << >> /\ s.call.rlNow - Max(s.requests) < minInterval
    THEN [s EXCEPT
            !.pc = "intervalWait",
            !.timer = minInterval - (s.call.rlNow - Max(s.requests))]
    ELSE RecordRequest(s)

RecentRequests_Flipped(reqs, t0) ==
    SelectSeq(reqs, LAMBDA t : t0 - t > WindowMs)

\* "Remove requests older than 1 minute":
\* this.requests.filter(time => now - time < 60000)
RecentRequests(reqs, t0) ==
    SelectSeq(reqs, LAMBDA t : t0 - t < WindowMs)

\* waitIfNeeded from its call to its first suspension
waitIfNeeded(s) ==
    LET kept == RecentRequests(s.requests, s.now)
        t == [s EXCEPT
                !.requests = kept,
                !.call.rlNow = s.now,
                !.waitCount = @ + 1]
    IN  IF Len(kept) >= requestsPerMinute
            /\ WindowMs - (s.now - Min(kept)) + BufferMs > 0
        THEN [t EXCEPT
                !.pc = "limitWait",
                !.timer = WindowMs - (s.now - Min(kept)) + BufferMs]
        ELSE MinimumInterval(t)

\* the head of the for loop over modules; idx is the next position
ForLoop(s) ==
    IF s.call.idx > Len(s.call.modules) THEN Finish(s) ELSE waitIfNeeded(s)

(***************************************************************************)
(* Strings of the interpreter and the String methods and regular           *)
(* expressions it uses.                                                    *)
(***************************************************************************)
\* the characters of \d, [A-Z] and [a-z], in order
Chars ==
    [ digit |-> << "0", "1", "2", "3", "4", "5", "6", "7", "8", "9" >>
    , upper |->
        << "A", "B", "C", "D", "E", "F", "G", "H", "I", "J", "K", "L", "M",
           "N", "O", "P", "Q", "R", "S", "T", "U", "V", "W", "X", "Y", "Z" >>
    , lower |->
        << "a", "b", "c", "d", "e", "f", "g", "h", "i", "j", "k", "l", "m",
           "n", "o", "p", "q", "r", "s", "t", "u", "v", "w", "x", "y", "z" >>
    ]

\* \d, [A-Z], [a-z] and \s
IsDigit(c) == \E i \in DOMAIN Chars.digit : Chars.digit[i] = c
IsUpper(c) == \E i \in DOMAIN Chars.upper : Chars.upper[i] = c
IsLower(c) == \E i \in DOMAIN Chars.lower : Chars.lower[i] = c
IsSpace(c) == c \in { " ", "\t", Newline }

\* str.toLowerCase()
toLowerCase(str) ==
    [i \in DOMAIN str |->
        IF IsUpper(str[i])
        THEN Chars.lower[CHOOSE k \in DOMAIN Chars.upper :
                            Chars.upper[k] = str[i]]
        ELSE str[i]]

\* str.toUpperCase()
toUpperCase(str) ==
    [i \in DOMAIN str |->
        IF IsLower(str[i])
        THEN Chars.upper[CHOOSE k \in DOMAIN Chars.lower :
                            Chars.lower[k] = str[i]]
        ELSE str[i]]

RECURSIVE trimStart(_)
trimStart(str) ==
    IF str # << >> /\ IsSpace(Head(str)) THEN trimStart(Tail(str)) ELSE str

RECURSIVE trimEnd(_)
trimEnd(str) ==
    IF str # << >> /\ IsSpace(str[Len(str)])
    THEN trimEnd(SubSeq(str, 1, Len(str) - 1))
    ELSE str

\* str.trim()
trim(str) == trimEnd(trimStart(str))

\* str.split(sep), sep a character or a class of characters
RECURSIVE split(_, _)
split(str, seps) ==
    IF \A i \in DOMAIN str : str[i] \notin seps THEN << str >>
    ELSE LET p == CHOOSE i \in DOMAIN str :
                    /\ str[i] \in seps
                    /\ \A j \in 1 .. (i - 1) : str[j] \notin seps
         IN  << SubSeq(str, 1, p - 1) >>
                \o split(SubSeq(str, p + 1, Len(str)), seps)

\* strs.join(sep)
RECURSIVE join(_, _)
join(strs, sep) ==
    IF strs = << >> THEN << >>
    ELSE IF Len(strs) = 1 THEN strs[1]
    ELSE strs[1] \o << sep >> \o join(Tail(strs), sep)

\* str.includes(sub)
includes(str, sub) ==
    \E i \in 0 .. (Len(str) - Len(sub)) :
        SubSeq(str, i + 1, i + Len(sub)) = sub

\* the number of digits, and of white space, str has from position i on
RECURSIVE DigitsAt(_, _)
DigitsAt(str, i) ==
    IF i <= Len(str) /\ IsDigit(str[i]) THEN 1 + DigitsAt(str, i + 1) ELSE 0

RECURSIVE SpacesAt(_, _)
SpacesAt(str, i) ==
    IF i <= Len(str) /\ IsSpace(str[i]) THEN 1 + SpacesAt(str, i + 1) ELSE 0

\* str.match(/^\d+\./)
MatchesNumbered(str) ==
    LET d == DigitsAt(str, 1) IN
    d >= 1 /\ Len(str) > d /\ str[d + 1] = "."

\* the length of what /^\d+\.\s+/ matches in str, 0 when it does not match
NumberedPrefix(str) ==
    LET d == DigitsAt(str, 1)
        w == SpacesAt(str, d + 2)
    IN  IF MatchesNumbered(str) /\ w >= 1 THEN d + 1 + w ELSE 0

\* str.match(/^\d+\.\s+[A-Z]/)
MatchesHeading(str) ==
    LET k == NumberedPrefix(str) IN
    k > 0 /\ Len(str) > k /\ IsUpper(str[k + 1])

(***************************************************************************)
(* extractSections.  The sections object is the sequence of its entries    *)
(* [name, content] in the order Object.entries gives them: a name is not   *)
(* an integer-like key, so the order is that of first assignment.          *)
(***************************************************************************)
\* sections[name] = content
SetSection(sections, name, content) ==
    IF \E i \in DOMAIN sections : sections[i].name = name
    THEN [i \in DOMAIN sections |->
            IF sections[i].name = name
            THEN [name |-> name, content |-> content]
            ELSE sections[i]]
    ELSE Append(sections, [name |-> name, content |-> content])

\* trimmedLine.toLowerCase().replace(/^\d+\.\s+/, '')
\*     .replace(/[^a-z\s]/g, '').trim()
SectionName(trimmedLine) ==
    LET lower == toLowerCase(trimmedLine)
        rest == SubSeq(lower, NumberedPrefix(lower) + 1, Len(lower))
    IN  trim(SelectSeq(rest, LAMBDA c : IsLower(c) \/ IsSpace(c)))

\* if (currentContent.length > 0) sections[currentSection] = ...join('\n')
CloseSection(sections, currentSection, currentContent) ==
    IF Len(currentContent) > 0
    THEN SetSection(sections, currentSection, join(currentContent, Newline))
    ELSE sections

\* the loop over the lines, from line i on
RECURSIVE SectionLoop(_, _, _, _, _)
SectionLoop(lines, i, sections, currentSection, currentContent) ==
    IF i > Len(lines)
    THEN CloseSection(sections, currentSection, currentContent)
    ELSE LET trimmedLine == trim(lines[i]) IN
         IF MatchesHeading(trimmedLine)
         THEN SectionLoop(lines, i + 1,
                CloseSection(sections, currentSection, currentContent),
                SectionName(trimmedLine), << >>)
         ELSE IF Len(trimmedLine) > 0
         THEN SectionLoop(lines, i + 1, sections, currentSection,
                Append(currentContent, trimmedLine))
         ELSE SectionLoop(lines, i + 1, sections, currentSection,
                currentContent)

extractSections(response) ==
    SectionLoop(split(response, { Newline }), 1, << >>,
        << "g", "e", "n", "e", "r", "a", "l" >>, << >>)

(***************************************************************************)
(* The extractors.                                                         *)
(***************************************************************************)
\* the string literals the extractors look for
Key ==
    [ basic |-> << "b", "a", "s", "i", "c" >>
    , a1 |-> << "a", "1" >>
    , a2 |-> << "a", "2" >>
    , intermediate |-> << "i", "n", "t", "e", "r", "m", "e", "d", "i", "a", "t", "e" >>
    , b1 |-> << "b", "1" >>
    , b2 |-> << "b", "2" >>
    , advanced |-> << "a", "d", "v", "a", "n", "c", "e", "d" >>
    , c1 |-> << "c", "1" >>
    , c2 |-> << "c", "2" >>
    , academic |-> << "a", "c", "a", "d", "e", "m", "i", "c" >>
    , collocation |-> << "c", "o", "l", "l", "o", "c", "a", "t", "i", "o", "n" >>
    , phrase |-> << "p", "h", "r", "a", "s", "e" >>
    , sentence |-> << "s", "e", "n", "t", "e", "n", "c", "e" >>
    , transition |-> << "t", "r", "a", "n", "s", "i", "t", "i", "o", "n" >>
    , marker |-> << "m", "a", "r", "k", "e", "r" >>
    , readability |-> << "r", "e", "a", "d", "a", "b", "i", "l", "i", "t", "y" >>
    , metric |-> << "m", "e", "t", "r", "i", "c" >>
    , recommendation |-> << "r", "e", "c", "o", "m", "m", "e", "n", "d", "a", "t", "i", "o", "n" >>
    , flesch |-> << "f", "l", "e", "s", "c", "h" >>
    , grade |-> << "g", "r", "a", "d", "e" >>
    ]

\* section.includes(k) for some k of keys
NameIncludes(section, keys) == \E k \in keys : includes(section.name, k)

\* the first entry of sections whose name includes one of keys, 0 if none
FirstSection(sections, keys) ==
    IF \E i \in DOMAIN sections : NameIncludes(sections[i], keys)
    THEN CHOOSE i \in DOMAIN sections :
            /\ NameIncludes(sections[i], keys)
            /\ \A j \in 1 .. (i - 1) : ~NameIncludes(sections[j], keys)
    ELSE 0

StartsWithMarker_DashOnly(trimmed) ==
    trimmed # << >> /\ (trimmed[1] = "-" \/ MatchesNumbered(trimmed))

\* trimmed.startsWith('-') || trimmed.startsWith('\u2022')
\*     || trimmed.match(/^\d+\./)
StartsWithMarker(trimmed) ==
    /\ trimmed # << >>
    /\ (trimmed[1] = "-" \/ trimmed[1] = Bullet \/ MatchesNumbered(trimmed))

\* trimmed.replace(/^[-\u2022\d.]\s*/, ''): one character of the class and
\* the white space after it
StripMarker(trimmed) ==
    IF trimmed # << >>
        /\ (trimmed[1] \in { "-", Bullet, "." } \/ IsDigit(trimmed[1]))
    THEN trimStart(Tail(trimmed))
    ELSE trimmed

\* trimmed.replace(...).split(/[,;]/)[0].trim()
WordOf(trimmed) == trim(split(StripMarker(trimmed), { ",", ";" })[1])

RECURSIVE WordLoop(_, _, _)
WordLoop(lines, i, words) ==
    IF i > Len(lines) THEN words
    ELSE LET trimmed == trim(lines[i]) IN
         IF StartsWithMarker(trimmed) /\ Len(WordOf(trimmed)) > 0
         THEN WordLoop(lines, i + 1, Append(words, WordOf(trimmed)))
         ELSE WordLoop(lines, i + 1, words)

extractWordList(content) == WordLoop(split(content, { Newline }), 1, << >>)

\* the word list of the first section named with one of keys, [] if none
WordListOf(sections, keys) ==
    IF FirstSection(sections, keys) = 0 THEN << >>
    ELSE extractWordList(sections[FirstSection(sections, keys)].content)

RECURSIVE LevelLoop(_, _, _)
LevelLoop(sections, i, levels) ==
    IF i > Len(sections) THEN levels
    ELSE LET words == extractWordList(sections[i].content) IN
         LevelLoop(sections, i + 1,
            IF NameIncludes(sections[i], { Key.basic, Key.a1, Key.a2 })
            THEN [levels EXCEPT !.basic = words]
            ELSE IF NameIncludes(sections[i],
                        { Key.intermediate, Key.b1, Key.b2 })
            THEN [levels EXCEPT !.intermediate = words]
            ELSE IF NameIncludes(sections[i], { Key.advanced, Key.c1, Key.c2 })
            THEN [levels EXCEPT !.advanced = words]
            ELSE levels)

extractDifficultyLevels(sections) ==
    LevelLoop(sections, 1,
        [basic |-> << >>, intermediate |-> << >>, advanced |-> << >>])

extractAcademicVocabulary(sections) == WordListOf(sections, { Key.academic })

extractCollocations(sections) ==
    WordListOf(sections, { Key.collocation, Key.phrase })

extractTransitionWords(sections) ==
    WordListOf(sections, { Key.transition, Key.marker })

\* content.match(/(\d+)/g): the maximal runs of digits from position i on
RECURSIVE DigitRuns(_, _)
DigitRuns(str, i) ==
    IF i > Len(str) THEN << >>
    ELSE IF IsDigit(str[i])
    THEN << SubSeq(str, i, i + DigitsAt(str, i) - 1) >>
            \o DigitRuns(str, i + DigitsAt(str, i))
    ELSE DigitRuns(str, i + 1)

\* parseInt(digits) of a run of digits
RECURSIVE parseInt(_)
parseInt(digits) ==
    IF digits = << >> THEN 0
    ELSE 10 * parseInt(SubSeq(digits, 1, Len(digits) - 1))
            + ((CHOOSE k \in DOMAIN Chars.digit :
                    Chars.digit[k] = digits[Len(digits)]) - 1)

RECURSIVE SentenceLoop(_, _, _)
SentenceLoop(sections, i, types) ==
    IF i > Len(sections) THEN types
    ELSE LET matches == DigitRuns(sections[i].content, 1) IN
         SentenceLoop(sections, i + 1,
            IF NameIncludes(sections[i], { Key.sentence }) /\ Len(matches) >= 4
            THEN [simple |-> parseInt(matches[1]),
                  compound |-> parseInt(matches[2]),
                  complex |-> parseInt(matches[3]),
                  compoundComplex |-> parseInt(matches[4])]
            ELSE types)

extractSentenceTypes(sections) ==
    SentenceLoop(sections, 1,
        [simple |-> 0, compound |-> 0, complex |-> 0, compoundComplex |-> 0])

\* the first position of str from i on that holds sub, 0 if none
RECURSIVE IndexOf(_, _, _)
IndexOf(str, sub, i) ==
    IF i + Len(sub) - 1 > Len(str) THEN 0
    ELSE IF SubSeq(str, i, i + Len(sub) - 1) = sub THEN i
    ELSE IndexOf(str, sub, i + 1)

\* the first position of str from i on that holds a digit, 0 if none
RECURSIVE DigitFrom(_, _)
DigitFrom(str, i) ==
    IF i > Len(str) THEN 0
    ELSE IF IsDigit(str[i]) THEN i
    ELSE DigitFrom(str, i + 1)

\* content.match(/<key>[^0-9]*(\d+\.?\d*)/i): whether it matches, and the
\* digits before and after the '.' of the group
MatchNumberAfter(content, key) ==
    LET p == IndexOf(toLowerCase(content), key, 1)
        q == IF p = 0 THEN 0 ELSE DigitFrom(content, p + Len(key))
        d == DigitsAt(content, q)
        dot == q + d <= Len(content) /\ content[q + d] = "."
        f == IF dot THEN DigitsAt(content, q + d + 1) ELSE 0
    IN  IF q = 0
        THEN [matched |-> FALSE, whole |-> << >>, fraction |-> << >>]
        ELSE [matched |-> TRUE,
              whole |-> SubSeq(content, q, q + d - 1),
              fraction |-> SubSeq(content, q + d + 1, q + d + f)]

RECURSIVE StripZeros(_)
StripZeros(digits) ==
    IF digits # << >> /\ digits[Len(digits)] = "0"
    THEN StripZeros(SubSeq(digits, 1, Len(digits) - 1))
    ELSE digits

\* parseFloat of the group: the number, as its integer part and the
\* digits of its fraction
parseFloat(m) ==
    [whole |-> parseInt(m.whole), fraction |-> StripZeros(m.fraction)]

\* metrics[key] = value
SetMetric(metrics, key, value) ==
    [k \in DOMAIN metrics \cup { key } |->
        IF k = key THEN value ELSE metrics[k]]

RECURSIVE MetricLoop(_, _, _)
MetricLoop(sections, i, metrics) ==
    IF i > Len(sections) THEN metrics
    ELSE IF ~NameIncludes(sections[i], { Key.readability, Key.metric })
    THEN MetricLoop(sections, i + 1, metrics)
    ELSE LET fleschMatch == MatchNumberAfter(sections[i].content, Key.flesch)
             gradeMatch == MatchNumberAfter(sections[i].content, Key.grade)
             m1 == IF fleschMatch.matched
                   THEN SetMetric(metrics, "fleschKincaid",
                            parseFloat(fleschMatch))
                   ELSE metrics
             m2 == IF gradeMatch.matched
                   THEN SetMetric(m1, "gradeLevel", parseFloat(gradeMatch))
                   ELSE m1
         IN  MetricLoop(sections, i + 1, m2)

extractReadabilityMetrics(sections) ==
    MetricLoop(sections, 1, [k \in {} |-> 0])

\* the first position of content from i on that /([ABC][12])/i matches
RECURSIVE CEFRAt(_, _)
CEFRAt(content, i) ==
    IF i + 1 > Len(content) THEN 0
    ELSE IF /\ toUpperCase(<< content[i] >>)[1] \in { "A", "B", "C" }
            /\ content[i + 1] \in { "1", "2" }
    THEN i
    ELSE CEFRAt(content, i + 1)

RECURSIVE CEFRLoop(_, _)
CEFRLoop(sections, i) ==
    IF i > Len(sections) THEN << "B", "2" >>
    ELSE LET k == CEFRAt(sections[i].content, 1) IN
         IF k > 0
         THEN toUpperCase(SubSeq(sections[i].content, k, k + 1))
         ELSE CEFRLoop(sections, i + 1)

extractCEFRLevel(sections) == CEFRLoop(sections, 1)

\* 'Text analysis completed successfully.'
DefaultRecommendation ==
    << "T", "e", "x", "t", " ", "a", "n", "a", "l", "y", "s", "i", "s",
       " ", "c", "o", "m", "p", "l", "e", "t", "e", "d", " ", "s", "u",
       "c", "c", "e", "s", "s", "f", "u", "l", "l", "y", "." >>

extractRecommendations(sections) ==
    IF FirstSection(sections, { Key.recommendation }) = 0
    THEN DefaultRecommendation
    ELSE sections[FirstSection(sections, { Key.recommendation })].content

(***************************************************************************)
(* The parse functions, on the characters of a response that is a string.  *)
(***************************************************************************)
parseVocabularyResponse(response) ==
    LET sections == extractSections(response) IN
    [difficultyLevels |-> extractDifficultyLevels(sections),
     academicVocabulary |-> extractAcademicVocabulary(sections),
     collocations |-> extractCollocations(sections),
     frequencyAnalysis |-> [summary |-> "Frequency analysis completed"]]

parseGrammarResponse(response) ==
    LET sections == extractSections(response) IN
    [sentenceTypes |-> extractSentenceTypes(sections),
     tensePatterns |-> [summary |-> "Tense patterns identified"],
     complexStructures |-> [summary |-> "Complex structures analyzed"],
     voiceAnalysis |-> [active |-> 0, passive |-> 0]]

parseStructureResponse(response) ==
    LET sections == extractSections(response) IN
    [paragraphOrganization |->
        [summary |-> "Paragraph organization analyzed"],
     coherenceMarkers |-> [summary |-> "Coherence markers identified"],
     transitionWords |-> extractTransitionWords(sections),
     textFlow |-> [summary |-> "Text flow analyzed"]]

parseContentResponse(response) ==
    [mainIdeas |-> [summary |-> "Main ideas identified"],
     supportingDetails |-> [summary |-> "Supporting details categorized"],
     argumentStructure |-> [summary |-> "Argument structure analyzed"],
     evidenceTypes |-> [summary |-> "Evidence types identified"]]

parseComplexityResponse(response) ==
    LET sections == extractSections(response) IN
    [readabilityMetrics |-> extractReadabilityMetrics(sections),
     cefrLevel |-> extractCEFRLevel(sections),
     lexicalDiversity |->
        [score |-> "0.75", summary |-> "Lexical diversity calculated"],
     recommendations |-> extractRecommendations(sections)]

(***************************************************************************)
(* processModuleResponse and the two ways an iteration of the loop over    *)
(* modules ends.                                                           *)
(***************************************************************************)
\* the parse functions call response.split('\n'), which throws a TypeError
\* when the response is not a string; the default branch does not parse
ParseThrows(module, response) ==
    module \in KnownModules /\ response.type # "string"

\* the switch: processedData.structured
Structured(module, response) ==
    IF module = "vocabulary" THEN parseVocabularyResponse(response.chars)
    ELSE IF module = "grammar" THEN parseGrammarResponse(response.chars)
    ELSE IF module = "structure" THEN parseStructureResponse(response.chars)
    ELSE IF module = "content" THEN parseContentResponse(response.chars)
    ELSE IF module = "complexity"
    THEN parseComplexityResponse(response.chars)
    ELSE [summary |-> response]

ProcessingFailed_NoError(module, response, t) ==
    [module |-> module, rawResponse |-> response, processed |-> FALSE,
     timestamp |-> t]

\* what the catch block returns
ProcessingFailed(module, response, t) ==
    [module |-> module, rawResponse |-> response, processed |-> FALSE,
     error |-> << "Processing failed: ", "TypeError" >>, timestamp |-> t]

processModuleResponse_Rethrow(module, response, originalText, t) ==
    IF ParseThrows(module, response)
    THEN Throw(<< "Processing failed: ", "TypeError" >>)
    ELSE Return(
            [module |-> module, rawResponse |-> response, processed |-> TRUE,
             timestamp |-> t, wordCount |-> countWords(originalText),
             structured |-> Structured(module, response)])

\* how processModuleResponse completes: Return(the result) or Throw
processModuleResponse(module, response, originalText, t) ==
    IF ParseThrows(module, response)
    THEN Return(ProcessingFailed(module, response, t))
    ELSE Return(
            [module |-> module, rawResponse |-> response, processed |-> TRUE,
             timestamp |-> t, wordCount |-> countWords(originalText),
             structured |-> Structured(module, response)])

SetEntry(results, module, entry) ==
    [results EXCEPT !.entries =
        [m \in DOMAIN @ \cup {module} |-> IF m = module THEN entry ELSE @[m]]]

ModuleFailed_Rethrow(s, message) == Settle(s, TRUE, message, NoResults)

\* generateContent threw: the catch block of analyzeText
ModuleFailed(s, message) ==
    LET module == s.call.modules[s.call.idx] IN
    ForLoop(
        [s EXCEPT
            !.call.results = SetEntry(@, module,
                [error |-> message, module |-> module, timestamp |-> s.now]),
            !.call.idx = @ + 1])

\* generateContent returned: results[module] = ..., completedModules++,
\* options.onProgress(...), and the loop goes on; an exception of
\* processModuleResponse would be caught by the catch block of analyzeText
ModuleDone(s, response) ==
    LET module == s.call.modules[s.call.idx]
        done == processModuleResponse(module, response, s.call.text, s.now)
    IN  IF done.do = "throw" THEN ModuleFailed(s, done.message)
        ELSE ForLoop(
            [s EXCEPT
                !.call.results = SetEntry(@, module, done.value),
                !.call.completedModules = @ + 1,
                !.call.progress = Append(@,
                    [completed |-> s.call.completedModules + 1,
                     total |-> Len(s.call.modules),
                     module |-> module]),
                !.call.idx = @ + 1])

\* generateContent settles (call.outcomes: how the generateContent call of
\* each module started so far settled, in order)
GenReturn(s, value) ==
    ModuleDone(
        [s EXCEPT
            !.lastGen = [s.gen EXCEPT !.result = "return", !.value = value],
            !.gen = NoGen,
            !.call.outcomes = Append(@,
                [module |-> s.call.modules[s.call.idx], threw |-> FALSE,
                 value |-> value, message |-> << >>])],
        value)

GenThrow(s, message) ==
    ModuleFailed(
        [s EXCEPT
            !.lastGen = [s.gen EXCEPT !.result = "throw", !.message = message],
            !.gen = NoGen,
            !.call.outcomes = Append(@,
                [module |-> s.call.modules[s.call.idx], threw |-> TRUE,
                 value |-> UndefinedValue, message |-> message])],
        message)

AfterLoop_NoWrap(s) ==
    IF s.gen.lastError = << >>
    THEN GenThrow(s, << "TypeError" >>)
    ELSE GenThrow(s, s.gen.lastError)

\* after the loop: lastError.message of an undefined lastError is a TypeError
AfterLoop(s) ==
    IF s.gen.lastError = << >>
    THEN GenThrow(s, << "TypeError" >>)
    ELSE GenThrow(s, AnalysisFailedMessage(s.gen.lastError))

\* await this.delay(ms)
Backoff(s, ms) ==
    [s EXCEPT
        !.pc = "backoff",
        !.timer = ms,
        !.gen.delays = Append(@, ms)]

(***************************************************************************)
(* The actions: a caller invokes analyzeText, a timer fires, the fetch     *)
(* settles.  Each runs the code up to its next suspension.                 *)
(***************************************************************************)
\* analyzeText from its call to its first suspension, or to its end
EnterAnalyzeText(s, text, options) ==
    LET modules ==
            IF options.given THEN options.modules ELSE DefaultModules
        entered ==
            [s EXCEPT !.call =
                [NoCall EXCEPT
                    !.text = text,
                    !.options = options,
                    !.modules = modules,
                    !.fetches0 = s.fetchCount,
                    !.waits0 = s.waitCount,
                    !.invokedAt = s.now]]
        key == generateCacheKey(text, modules)
        \* modules.sort() in generateCacheKey sorts the array itself
        started ==
            [entered EXCEPT
                !.call.results =
                    [NoResults EXCEPT
                        !.text = text,
                        !.wordCount = countWords(text),
                        !.charCount = Length(text),
                        !.analysisDate = s.now],
                !.call.startTime = s.now,
                !.call.cacheKey = key,
                !.call.modules = Sort(modules),
                !.call.idx = 1]
    IN  IF ValidationError(text) # << >>
        THEN Settle(entered, TRUE, ValidationError(text), NoResults)
        ELSE IF key \in DOMAIN s.cache
        THEN Settle(started, FALSE, << >>, s.cache[key])
        ELSE ForLoop(started)

NextAttempt_Stuck(attempt) == attempt

\* the for loop's attempt++
NextAttempt(attempt) == attempt + 1

\* a setTimeout callback runs in s: the wait of the rate limiter or the
\* backoff of the client is over
TimerCallback(s) ==
    IF s.pc = "limitWait" THEN MinimumInterval(s)
    ELSE IF s.pc = "intervalWait" THEN RecordRequest(s)
    ELSE LET next == [s EXCEPT !.gen.attempt = NextAttempt(@)] IN
         IF LoopCondition(next.gen.attempt)
         THEN IssueFetch(next)
         ELSE AfterLoop(next)

\* the fetch has settled with resp in s: the rest of the loop iteration
FetchSettled(s, resp) ==
    LET got == [s EXCEPT !.gen.responses = Append(@, resp)]
        try == TryBlock(resp, s.gen.attempt)
        caught == [got EXCEPT !.gen.lastError = try.message]
        catch == CatchBlock(try.message, s.gen.attempt)
    IN  IF try.do = "return" THEN GenReturn(got, try.value)
        ELSE IF try.do = "continue" THEN Backoff(got, try.delay)
        ELSE IF catch.do = "continue" THEN Backoff(caught, catch.delay)
        ELSE IF catch.do = "throw" THEN GenThrow(caught, catch.message)
        ELSE AfterLoop(caught)

analyzeText(text, options) ==
    /\ pc = "idle"
    /\ Len(history) < budget.calls
    /\ Becomes(EnterAnalyzeText(State, text, options))
    /\ UNCHANGED << faults, budget, idles, interp, tasks >>

\* the pending setTimeout callback runs
TimerFires ==
    /\ pc \in {"limitWait", "intervalWait", "backoff"}
    /\ Becomes(TimerCallback([State EXCEPT !.now = now + timer, !.timer = 0]))
    /\ UNCHANGED << faults, budget, idles, interp, tasks >>

\* the fetch settles with resp
FetchSettles(resp) ==
    /\ pc = "fetch"
    /\ IsFault(resp) => faults < budget.faults
    /\ faults' = IF IsFault(resp) THEN faults + 1 ELSE faults
    /\ Becomes(FetchSettled([State EXCEPT !.now = now + FetchLatency], resp))
    /\ UNCHANGED << budget, idles, interp, tasks >>

Next ==
    \/ \E text \in Texts, options \in Options : analyzeText(text, options)
    \/ TimerFires
    \/ \E resp \in ResponsesUnder(budget) : FetchSettles(resp)

Spec == Init /\ [][Next]_vars

(***************************************************************************)
(* The RateLimiter on its own: a caller that calls waitIfNeeded, awaits    *)
(* it, and calls again at once or after a pause.                           *)
(***************************************************************************)
\* the pauses of the caller, in milliseconds: within the minimum interval,
\* off the grid of the minimum interval, and a whole window
IdleTimes == { 1, minInterval + (minInterval \div 2), WindowMs }

\* where the caller may pause: after this many calls have been made (after
\* the first, half-way to a full window, one short of it, at it, past it)
PausePoints ==
    { 1, requestsPerMinute \div 2, requestsPerMinute - 1, requestsPerMinute,
      requestsPerMinute + 1 }

LimiterInit ==
    /\ now = 0
    /\ cache = [k \in {} |-> NoResults]
    /\ requests = << >>
    /\ pc = "idle"
    /\ timer = 0
    /\ call = NoCall
    /\ gen = NoGen
    /\ lastGen = NoGen
    /\ fetchCount = 0
    /\ waitCount = 0
    /\ faults = 0
    /\ budget = [calls |-> 0, faults |-> 0, anyFault |-> FALSE]
    /\ history = << >>
    /\ recorded = << >>
    /\ idles = 0
    /\ interp = NoInterp
    /\ tasks = << >>

\* await rateLimiter.waitIfNeeded(), called outside analyzeText
CallWaitIfNeeded ==
    /\ pc = "idle"
    /\ waitCount < MaxWaits
    /\ Becomes(waitIfNeeded(State))
    /\ UNCHANGED << faults, budget, idles, interp, tasks >>

\* the caller lets ms milliseconds pass before its next call
CallerIdles(ms) ==
    /\ pc = "idle"
    /\ idles < MaxIdles
    /\ waitCount \in PausePoints
    /\ now' = now + ms
    /\ idles' = idles + 1
    /\ UNCHANGED << cache, requests, pc, timer, call, gen, lastGen,
                    fetchCount, waitCount, faults, budget, history,
                    recorded, interp, tasks >>

LimiterNext ==
    \/ CallWaitIfNeeded
    \/ \E ms \in IdleTimes : CallerIdles(ms)
    \/ TimerFires

LimiterSpec == LimiterInit /\ [][LimiterNext]_vars

\* a pending setTimeout callback is run by the event loop
LimiterLive == LimiterSpec /\ WF_vars(TimerFires)

(***************************************************************************)
(* The interpreter on its own: processModuleResponse applied to a module   *)
(* and a raw response.                                                     *)
(***************************************************************************)
\* "1. Academic Vocabulary:"
AcademicHeading ==
    << "1", ".", " ", "A", "c", "a", "d", "e", "m", "i", "c", " ", "V",
       "o", "c", "a", "b", "u", "l", "a", "r", "y", ":" >>

\* the bullet lines of a response: a marker, the white space after it, the
\* item up to its first ',' or ';' and the rest of the item
BulletLine(marker, gap, first, rest) ==
    [marker |-> marker, gap |-> gap,
     item |-> [first |-> first, rest |-> rest]]

\* "- ab", "-ab", "U+2022 a b, cd", "- ab;c", "-", "U+2022 ", "2. ab"
BulletLines ==
    { BulletLine(<< "-" >>, << " " >>, << "a", "b" >>, << >>),
      BulletLine(<< "-" >>, << >>, << "a", "b" >>, << >>),
      BulletLine(<< Bullet >>, << " " >>, << "a", " ", "b" >>,
                 << ",", " ", "c", "d" >>),
      BulletLine(<< "-" >>, << " " >>, << "a", "b" >>, << ";", "c" >>),
      BulletLine(<< "-" >>, << >>, << >>, << >>),
      BulletLine(<< Bullet >>, << " " >>, << >>, << >>),
      BulletLine(<< "2", "." >>, << " " >>, << "a", "b" >>, << >>) }

\* the line of a bullet
BulletText(b) == b.marker \o b.gap \o b.item.first \o b.item.rest

\* the lines before the heading and after the bullet lines
OtherLines ==
    [ before |->
        { << >>,
          <<
            << "H", "e", "r", "e", " ", "i", "s", " ", "t", "h", "e", " ", "a",
               "n", "a", "l", "y", "s", "i", "s", ":" >> >> }
    , after |->
        { << >>,
          <<
            << >>,
            << " ", " ", "2", ".", " ", "C", "o", "l", "l", "o", "c", "a", "t",
               "i", "o", "n", "s", " ", "a", "n", "d", " ", "P", "h", "r", "a",
               "s", "e", "s", ":" >>,
            << " ", " ", "-", " ", "m", "a", "k", "e", " ", "a", " ", "d", "e",
               "c", "i", "s", "i", "o", "n", ",", " ", "c", "o", "m", "m", "o",
               "n" >> >> }
    ]

\* the sequences over S of at most n elements
RECURSIVE SeqsUpTo(_, _)
SeqsUpTo(S, n) ==
    IF n = 0 THEN { << >> }
    ELSE SeqsUpTo(S, n - 1)
            \cup { Append(q, x) : q \in SeqsUpTo(S, n - 1), x \in S }

\* the response made of the lines before, the heading, the bullet lines
\* and the lines after
Outlined(before, bullets, after) ==
    StringValue(
        join(before \o << AcademicHeading >>
                \o [i \in DOMAIN bullets |-> BulletText(bullets[i])]
                \o after,
             Newline))

\* other raw responses: undefined, '', a text without a heading, and
\* answers to the grammar and to the complexity prompt
PlainResponses ==
    { UndefinedValue,
      StringValue(<< >>),
      StringValue(
        << "I", " ", "c", "a", "n", "n", "o", "t", " ", "a", "n", "a", "l",
           "y", "s", "e", " ", "t", "h", "i", "s", " ", "t", "e", "x", "t",
           ".", Newline, "-", " ", "s", "o", "r", "r", "y" >>),
      StringValue(
        << "1", ".", " ", "S", "e", "n", "t", "e", "n", "c", "e", " ", "T",
           "y", "p", "e", "s", ":", Newline, "s", "i", "m", "p", "l", "e",
           " ", "4", ",", " ", "c", "o", "m", "p", "o", "u", "n", "d", " ",
           "2", ",", " ", "c", "o", "m", "p", "l", "e", "x", " ", "1", ",",
           " ", "o", "t", "h", "e", "r", " ", "0" >>),
      StringValue(
        << "1", ".", " ", "R", "e", "a", "d", "a", "b", "i", "l", "i", "t",
           "y", " ", "M", "e", "t", "r", "i", "c", "s", ":", Newline, "F",
           "l", "e", "s", "c", "h", " ", "s", "c", "o", "r", "e", ":", " ",
           "6", "5", ".", "5", "0", Newline, "G", "r", "a", "d", "e", " ",
           "8", Newline, "2", ".", " ", "L", "e", "v", "e", "l", ":",
           Newline, "a", "b", "o", "u", "t", " ", "b", "1" >>) }

\* the modules given to the interpreter
InterpModules == KnownModules \cup { "sentiment" }

InterpInputs ==
    { [NoInterp EXCEPT !.module = m, !.response = r] :
        m \in InterpModules, r \in PlainResponses }
    \cup
    { [NoInterp EXCEPT
            !.module = m,
            !.response = Outlined(before, bullets, after),
            !.outline = [given |-> TRUE, bullets |-> bullets]] :
        m \in InterpModules, before \in OtherLines.before,
        bullets \in SeqsUpTo(BulletLines, MaxBullets),
        after \in OtherLines.after }

InterpInit ==
    /\ now = 0
    /\ cache = [k \in {} |-> NoResults]
    /\ requests = << >>
    /\ pc = "idle"
    /\ timer = 0
    /\ call = NoCall
    /\ gen = NoGen
    /\ lastGen = NoGen
    /\ fetchCount = 0
    /\ waitCount = 0
    /\ faults = 0
    /\ budget = [calls |-> 0, faults |-> 0, anyFault |-> FALSE]
    /\ history = << >>
    /\ recorded = << >>
    /\ idles = 0
    /\ interp \in InterpInputs
    /\ tasks = << >>

\* this.processModuleResponse(module, response, text), text being 'BB'
Interpret ==
    /\ ~interp.called
    /\ LET done == processModuleResponse(interp.module, interp.response,
                        << Run(66, 2) >>, now)
       IN  interp' = [interp EXCEPT
                        !.called = TRUE,
                        !.threw = (done.do = "throw"),
                        !.result = done.value]
    /\ UNCHANGED << now, cache, requests, pc, timer, call, gen, lastGen,
                    fetchCount, waitCount, faults, budget, history,
                    recorded, idles, tasks >>

InterpNext == Interpret

InterpSpec == InterpInit /\ [][InterpNext]_vars

(***************************************************************************)
(* Concurrent invocations: MaxTasks callers invoke analyzeText on one      *)
(* engine without awaiting one another.  The engine's cache and rate       *)
(* limiter are shared, each invocation has its own locals, and an          *)
(* invocation runs from one suspension point to the next when its timer    *)
(* or its fetch is the next one due.                                       *)
(***************************************************************************)
\* no invocation has been made yet
ConcInit ==
    /\ now = 0
    /\ cache = [k \in {} |-> NoResults]
    /\ requests = << >>
    /\ pc = "idle"
    /\ timer = 0
    /\ call = NoCall
    /\ gen = NoGen
    /\ lastGen = NoGen
    /\ fetchCount = 0
    /\ waitCount = 0
    /\ faults = 0
    /\ budget = [calls |-> 0, faults |-> 0, anyFault |-> FALSE]
    /\ history = << >>
    /\ recorded = << >>
    /\ idles = 0
    /\ interp = NoInterp
    /\ tasks =
        [p \in 1 .. MaxTasks |->
            [invoked |-> FALSE, pc |-> "idle", due |-> 0, call |-> NoCall,
             gen |-> NoGen, lastGen |-> NoGen]]

\* the engine as the invocation p sees it when it runs at time t
TaskState(p, t) ==
    [State EXCEPT
        !.now = t,
        !.pc = tasks[p].pc,
        !.timer = 0,
        !.call = tasks[p].call,
        !.gen = tasks[p].gen,
        !.lastGen = tasks[p].lastGen]

\* the invocation p has run up to its next suspension point and left s:
\* its timer or its fetch is due when the delay or the latency has passed
TaskBecomes(p, s) ==
    /\ now' = s.now
    /\ cache' = s.cache
    /\ requests' = s.requests
    /\ fetchCount' = s.fetchCount
    /\ waitCount' = s.waitCount
    /\ history' = s.history
    /\ recorded' = s.recorded
    /\ tasks' = [tasks EXCEPT ![p] =
            [invoked |-> TRUE, pc |-> s.pc,
             due |-> s.now + (IF s.pc = "fetch" THEN FetchLatency
                              ELSE s.timer),
             call |-> s.call, gen |-> s.gen, lastGen |-> s.lastGen]]
    /\ UNCHANGED << pc, timer, call, gen, lastGen, faults, budget, idles,
                    interp >>

\* the event loop runs what is due first
IsDueFirst(p) ==
    /\ tasks[p].pc # "idle"
    /\ \A q \in DOMAIN tasks :
            tasks[q].pc # "idle" => tasks[p].due <= tasks[q].due

\* a caller invokes analyzeText('BB', options) while others are in flight
TaskInvokes(p, options) ==
    /\ ~tasks[p].invoked
    /\ \A q \in 1 .. p - 1 : tasks[q].invoked
    /\ TaskBecomes(p,
            EnterAnalyzeText(TaskState(p, now), << Run(66, 2) >>, options))

\* a setTimeout callback of the invocation p runs
TaskTimerFires(p) ==
    /\ tasks[p].pc \in {"limitWait", "intervalWait", "backoff"}
    /\ IsDueFirst(p)
    /\ TaskBecomes(p, TimerCallback(TaskState(p, tasks[p].due)))

\* the fetch of the invocation p settles with resp
TaskFetchSettles(p, resp) ==
    /\ tasks[p].pc = "fetch"
    /\ IsDueFirst(p)
    /\ TaskBecomes(p, FetchSettled(TaskState(p, tasks[p].due), resp))

ConcNext ==
    \E p \in 1 .. MaxTasks :
        \/ \E modules \in { << "vocabulary" >>,
                             << "vocabulary", "grammar" >> } :
                TaskInvokes(p, [given |-> TRUE, modules |-> modules])
        \/ TaskTimerFires(p)
        \/ \E resp \in { WellFormed, HttpError(403, << >>) } :
                TaskFetchSettles(p, resp)

ConcSpec == ConcInit /\ [][ConcNext]_vars

(***************************************************************************)
(* The client on its own: one analyzeText invocation for one module, which *)
(* makes one generateContent call, and an endpoint that answers each fetch *)
(* in any way.                                                             *)
(***************************************************************************)
ClientInit ==
    /\ now = 0
    /\ cache = [k \in {} |-> NoResults]
    /\ requests = << >>
    /\ pc = "idle"
    /\ timer = 0
    /\ call = NoCall
    /\ gen = NoGen
    /\ lastGen = NoGen
    /\ fetchCount = 0
    /\ waitCount = 0
    /\ faults = 0
    /\ budget = [calls |-> 1, faults |-> MaxFaults, anyFault |-> TRUE]
    /\ history = << >>
    /\ recorded = << >>
    /\ idles = 0
    /\ interp = NoInterp
    /\ tasks = << >>

ClientNext ==
    \/ analyzeText(<< Run(66, 2) >>,
                   [given |-> TRUE, modules |-> << "vocabulary" >>])
    \/ TimerFires
    \/ \E resp \in Responses : FetchSettles(resp)

ClientSpec == ClientInit /\ [][ClientNext]_vars

\* a pending setTimeout callback is run by the event loop, and a fetch that
\* was issued settles: its promise is fulfilled or rejected
ClientLive ==
    /\ ClientSpec
    /\ WF_vars(TimerFires)
    /\ WF_vars(\E resp \in Responses : FetchSettles(resp))

(***************************************************************************)
(* Vocabulary of the properties.                                           *)
(***************************************************************************)
\* the step is an invocation of analyzeText
Invoked == pc = "idle" /\ (pc' # "idle" \/ Len(history') = Len(history) + 1)

\* the last invocation that settled
LastSettled == history[Len(history)]

\* the text and the options of the invocation in progress or, when none
\* is, of the last one that settled
InvokedText == IF pc = "idle" THEN LastSettled.text ELSE call.text
InvokedOptions == IF pc = "idle" THEN LastSettled.options ELSE call.options

\* the last invocation settled by throwing, within the step that invoked it
ThrewAtOnce == pc = "idle" /\ LastSettled.threw

IsBlank(text) == \A i \in DOMAIN text : IsWhitespace(text[i].ch)

\* the modules an invocation asks for
Requested(options) ==
    IF options.given THEN options.modules ELSE DefaultModules

IsPermutation(a, b) ==
    /\ Len(a) = Len(b)
    /\ \A x \in { a[i] : i \in DOMAIN a } \cup { b[i] : i \in DOMAIN b } :
            Cardinality({ i \in DOMAIN a : a[i] = x })
                = Cardinality({ i \in DOMAIN b : b[i] = x })

\* the generateContent invocations the state knows: the one in progress and
\* the last one that settled
Generations == { gen, lastGen }

IsThrottle(resp) == resp.kind = "http" /\ resp.status = 429
IsSafetyBlock(resp) ==
    /\ resp.kind = "http" /\ resp.status = 200
    /\ resp.candidate /\ resp.finishReason = "SAFETY"
IsGoodAnswer(resp) ==
    /\ resp.kind = "http" /\ resp.status = 200
    /\ resp.candidate /\ resp.finishReason # "SAFETY"
    /\ resp.part /\ resp.text.type = "string"

(***************************************************************************)
(* C1.  A text that is empty or whitespace-only makes analyzeText throw    *)
(* 'Text cannot be empty' within the invocation itself: no waitIfNeeded    *)
(* call, no fetch, and the cache and the limiter's log are left as they    *)
(* were.                                                                   *)
(***************************************************************************)
C1_BlankTextRejected ==
    [][ (Invoked /\ IsBlank(InvokedText'))
            => /\ ThrewAtOnce'
               /\ LastSettled'.message = EmptyTextMessage
               /\ fetchCount' = fetchCount
               /\ waitCount' = waitCount
               /\ cache' = cache
               /\ requests' = requests ]_vars

\* a whitespace-only text was rejected by an engine whose cache is not empty
C1_Witness ==
    /\ Len(history) = 2
    /\ LastSettled.text = << Run(32, 2) >>
    /\ LastSettled.threw
    /\ DOMAIN cache # {}

(***************************************************************************)
(* C2.  A text of more than 50,000 characters makes analyzeText throw a    *)
(* validation error before any fetch; a non-blank text of exactly 50,000   *)
(* characters is not rejected.                                             *)
(***************************************************************************)
C2_LongTextRejected ==
    [][ Invoked
            => /\ Length(InvokedText') > MaxTextLength
                    => /\ ThrewAtOnce'
                       /\ LastSettled'.message
                            \in { TooLongMessage, EmptyTextMessage }
                       /\ fetchCount' = fetchCount
               /\ (Length(InvokedText') = MaxTextLength
                        /\ ~IsBlank(InvokedText'))
                    => ~ThrewAtOnce' ]_vars

\* a text of 50,000 characters was analysed with a fetch, and after it a
\* text of 50,001 characters was rejected
C2_Witness ==
    /\ Len(history) = 2
    /\ Length(history[1].text) = MaxTextLength
    /\ ~history[1].threw
    /\ history[1].fetches > 0
    /\ Length(history[2].text) = MaxTextLength + 1
    /\ history[2].threw
    /\ history[2].message = TooLongMessage

C4_SuccessAfterThrottling ==
    \A g \in Generations :
        LET n == Len(g.responses) IN
        \* after k < retryAttempts answers, all 429, the call has not given up
        /\ (/\ n >= 1
            /\ n < retryAttempts
            /\ \A i \in 1 .. n : IsThrottle(g.responses[i]))
                => g.result = "pending"
        \* and the success that follows them is returned
        /\ (/\ n >= 1
            /\ n - 1 < retryAttempts
            /\ \A i \in 1 .. (n - 1) : IsThrottle(g.responses[i])
            /\ IsGoodAnswer(g.responses[n]))
                => /\ g.result = "return"
                   /\ g.value = g.responses[n].text
                   /\ g.fetches = n

\* throttled twice, the third attempt succeeded
C4_Witness ==
    /\ Len(lastGen.responses) = 3
    /\ IsThrottle(lastGen.responses[1])
    /\ IsThrottle(lastGen.responses[2])
    /\ IsGoodAnswer(lastGen.responses[3])
    /\ lastGen.result = "return"
    /\ lastGen.fetches = 3

(***************************************************************************)
(* C5.  When the endpoint answers 429 on every attempt, generateContent    *)
(* goes on until it has issued retryAttempts fetches and then throws an    *)
(* error whose message carries 'Rate limit exceeded. Please try again      *)
(* later.'; it issues no fetch after that.                                 *)
(***************************************************************************)
C5_ThrottledThroughout ==
    \A g \in Generations :
        LET n == Len(g.responses) IN
        (n >= 1 /\ \A i \in 1 .. n : IsThrottle(g.responses[i]))
            => /\ n <= retryAttempts
               /\ g.fetches \in { n, n + 1 }
               /\ g.fetches <= retryAttempts
               /\ n < retryAttempts => g.result = "pending"
               /\ n = retryAttempts
                    => /\ g.result = "throw"
                       /\ Includes(g.message, RateLimitMessage[1])
                       /\ g.fetches = retryAttempts

\* three attempts, three 429 answers, thrown
C5_Witness ==
    /\ Len(lastGen.responses) = retryAttempts
    /\ \A i \in DOMAIN lastGen.responses : IsThrottle(lastGen.responses[i])
    /\ lastGen.result = "throw"

(***************************************************************************)
(* C6.  A 2xx answer with finishReason SAFETY, on whichever attempt, makes *)
(* generateContent throw the safety error at once: that answer is the last *)
(* one, no fetch and no backoff delay follows it; on the first attempt     *)
(* the number of fetches is 1.                                             *)
(***************************************************************************)
C6_SafetyBlockIsFinal ==
    \A g \in Generations :
        \A i \in DOMAIN g.responses :
            IsSafetyBlock(g.responses[i])
                => /\ i = Len(g.responses)
                   /\ g.result = "throw"
                   /\ g.message = SafetyMessage
                   /\ g.fetches = i
                   /\ Len(g.delays) = i - 1

\* blocked on the first attempt: one fetch, no delay
C6_Witness ==
    /\ Len(lastGen.responses) = 1
    /\ IsSafetyBlock(lastGen.responses[1])
    /\ lastGen.result = "throw"
    /\ lastGen.fetches = 1
    /\ lastGen.delays = << >>

(***************************************************************************)
(* C7.  An HTTP 403 answer, on whichever attempt, makes generateContent    *)
(* throw the auth error at once: no fetch and no backoff delay follows it. *)
(***************************************************************************)
C7_AuthErrorIsFinal ==
    \A g \in Generations :
        \A i \in DOMAIN g.responses :
            (g.responses[i].kind = "http" /\ g.responses[i].status = 403)
                => /\ i = Len(g.responses)
                   /\ g.result = "throw"
                   /\ g.message = AuthMessage
                   /\ g.fetches = i
                   /\ Len(g.delays) = i - 1

\* throttled once, then a 403 on the second attempt
C7_Witness ==
    /\ Len(lastGen.responses) = 2
    /\ IsThrottle(lastGen.responses[1])
    /\ lastGen.responses[2].status = 403
    /\ lastGen.result = "throw"
    /\ lastGen.fetches = 2

(***************************************************************************)
(* C8.  As claimed: an HTTP 400 answer, whatever message its body carries, *)
(* makes generateContent throw the invalid-request error at once, and no   *)
(* fetch follows it.                                                       *)
(***************************************************************************)
C8_AsClaimed ==
    \A g \in Generations :
        \A i \in DOMAIN g.responses :
            (g.responses[i].kind = "http" /\ g.responses[i].status = 400)
                => /\ i = Len(g.responses)
                   /\ g.result = "throw"
                   /\ Includes(g.message, "Invalid request")
                   /\ g.fetches = i

C10_KeyIgnoresOrder ==
    \A i, j \in DOMAIN history :
        (/\ i < j
         /\ ~history[i].threw
         /\ ~history[j].threw
         /\ history[i].text = history[j].text
         /\ IsPermutation(Requested(history[i].options),
                          Requested(history[j].options)))
            => /\ history[i].cacheKey = history[j].cacheKey
               /\ history[j].fetches = 0
               /\ history[j].report = history[i].report

\* the same text with the two modules in either order
C10_Witness ==
    /\ Len(history) = 2
    /\ history[1].text = history[2].text
    /\ Requested(history[1].options) = << "vocabulary", "grammar" >>
    /\ Requested(history[2].options) = << "grammar", "vocabulary" >>
    /\ history[1].fetches = 2
    /\ history[2].cacheKey = history[1].cacheKey

(***************************************************************************)
(* Vocabulary of the RateLimiter's properties.                             *)
(***************************************************************************)
\* the last call time the limiter recorded
LastRecorded == recorded[Len(recorded)]

\* the recorded call times that a call looking at the clock at time t finds
\* inside the window: those less than 60,000 ms old
InWindow(t) == { j \in DOMAIN recorded : t - recorded[j].time < WindowMs }

\* the recorded call times before the last one
Earlier == 1 .. (Len(recorded) - 1)

\* the oldest call time the last call found inside the window
OldestFound ==
    LET found == InWindow(LastRecorded.called) \cap Earlier
    IN  recorded[CHOOSE j \in found : \A k \in found : j <= k].time

(***************************************************************************)
(* C11.  When waitIfNeeded calls are made one after another, each awaited  *)
(* before the next, any two call times recorded one after the other are    *)
(* at least minInterval = 60000 / requestsPerMinute apart, also when the   *)
(* next call is made at the instant the previous one returned.             *)
(***************************************************************************)
C11_MinimumSpacing ==
    \A i \in DOMAIN recorded :
        i > 1 => recorded[i].time - recorded[i - 1].time >= minInterval

\* three calls back-to-back: the second and the third were made at the
\* instant the one before was recorded
C11_Witness ==
    /\ Len(recorded) >= 3
    /\ recorded[2].called = recorded[1].time
    /\ recorded[3].called = recorded[2].time
    /\ recorded[3].time > recorded[2].time

(***************************************************************************)
(* C12.  Every waitIfNeeded call completes and records its call time: a    *)
(* call is either suspended on a timer or has returned, each returned call *)
(* recorded exactly one call time, and a suspended call always returns.    *)
(***************************************************************************)
C12_AlwaysAdmits ==
    /\ [](/\ pc \in { "idle", "limitWait", "intervalWait" }
          /\ pc # "idle" => timer > 0
          /\ Len(recorded) = waitCount - (IF pc = "idle" THEN 0 ELSE 1))
    /\ (pc # "idle") ~> (pc = "idle")

\* a call that found the window full has returned after both of its waits
C12_Witness ==
    /\ pc = "idle"
    /\ Len(recorded) > requestsPerMinute
    /\ Len(recorded) = waitCount
    /\ LastRecorded.time - LastRecorded.called > minInterval + BufferMs

(***************************************************************************)
(* C20.  The call times recorded inside a window of 60,000 ms (a window    *)
(* ends at a recorded call time and holds the call times less than 60,000  *)
(* ms before it) never number more than requestsPerMinute.  A call that    *)
(* finds requestsPerMinute call times inside the window is suspended, and  *)
(* records its own call time only when the oldest of them is 60,000 ms old *)
(* or older.                                                               *)
(***************************************************************************)
C20_WindowNeverOverfull ==
    /\ recorded # << >> =>
        /\ Cardinality(InWindow(LastRecorded.time)) <= requestsPerMinute
        /\ Cardinality(InWindow(LastRecorded.called) \cap Earlier)
                >= requestsPerMinute
            => LastRecorded.time - OldestFound >= WindowMs
    /\ (/\ pc # "idle"
        /\ now = call.rlNow
        /\ Cardinality(InWindow(now)) >= requestsPerMinute)
            => /\ pc = "limitWait"
               /\ (now + timer) - recorded[
                    CHOOSE j \in InWindow(now) :
                        \A k \in InWindow(now) : j <= k].time >= WindowMs

\* the call after requestsPerMinute calls found the window full and has
\* recorded its call time
C20_Witness ==
    /\ Len(recorded) = requestsPerMinute + 1
    /\ Cardinality(InWindow(LastRecorded.called) \cap Earlier)
            = requestsPerMinute
    /\ LastRecorded.time - recorded[1].time >= WindowMs

(***************************************************************************)
(* Vocabulary of the properties of the loop over modules.                  *)
(***************************************************************************)
SetOf(seq) == { seq[i] : i \in DOMAIN seq }

\* the invocation h went through the loop over modules: it was no cache hit
RanTheLoop(h) == ~h.threw /\ h.waits > 0

\* the modules of the outcomes, in the order the outcomes came
ModulesOf(outcomes) == [i \in DOMAIN outcomes |-> outcomes[i].module]

(***************************************************************************)
(* C13.  An invocation with a valid text does not throw, whatever the      *)
(* generateContent calls of its modules do.  It starts the analysis of     *)
(* every requested module, also after an earlier one failed, and its       *)
(* report has one entry per requested module: an entry with an error when  *)
(* generateContent threw for the module (rate limit exhausted, auth error, *)
(* safety block, network failure, ...), and an entry without an error when *)
(* generateContent returned a text.                                        *)
(***************************************************************************)
C13_ReportAlwaysReturns ==
    \A i \in DOMAIN history :
        LET h == history[i] IN
        /\ ValidationError(h.text) = << >> =>
            /\ ~h.threw
            /\ DOMAIN h.report.entries = SetOf(Requested(h.options))
        /\ RanTheLoop(h) =>
            /\ IsPermutation(h.started, Requested(h.options))
            /\ ModulesOf(h.outcomes) = h.started
            /\ \A k \in DOMAIN h.outcomes :
                    LET o == h.outcomes[k] IN
                    /\ o.threw
                        => /\ "error" \in DOMAIN h.report.entries[o.module]
                           /\ h.report.entries[o.module].error = o.message
                    /\ (~o.threw /\ o.value.type = "string")
                        => "error" \notin DOMAIN h.report.entries[o.module]

\* the first module failed with the auth error, the second was analysed
\* all the same and has no error
C13_Witness ==
    /\ Len(history) = 1
    /\ Len(history[1].outcomes) = 2
    /\ history[1].outcomes[1].threw
    /\ history[1].outcomes[1].message = AuthMessage
    /\ ~history[1].outcomes[2].threw
    /\ "error" \in DOMAIN
            history[1].report.entries[history[1].outcomes[1].module]
    /\ "error" \notin DOMAIN
            history[1].report.entries[history[1].outcomes[2].module]

(***************************************************************************)
(* C14.  As claimed: analyzeText analyses the requested modules one at a   *)
(* time and in the order the caller supplied them: the modules whose       *)
(* analysis has been started are the first ones of the supplied array, in  *)
(* its order, and at most the last of them has not settled yet.            *)
(***************************************************************************)
C14_AsClaimed ==
    /\ \A i \in DOMAIN history :
            RanTheLoop(history[i])
                => history[i].started = Requested(history[i].options)
    /\ pc # "idle" =>
        /\ Len(call.started) <= Len(Requested(call.options))
        /\ call.started
                = SubSeq(Requested(call.options), 1, Len(call.started))
        /\ Len(call.started) - Len(call.outcomes) \in { 0, 1 }

(***************************************************************************)
(* C15.  As claimed: an invocation that goes through the loop over n       *)
(* modules calls onProgress n times, once after each module settles,       *)
(* whether it succeeded or failed, in the order the modules settled.       *)
(***************************************************************************)
C15_AsClaimed ==
    \A i \in DOMAIN history :
        LET h == history[i] IN
        RanTheLoop(h) =>
            /\ Len(h.progress) = Len(Requested(h.options))
            /\ [k \in DOMAIN h.progress |-> h.progress[k].module]
                    = ModulesOf(h.outcomes)

(***************************************************************************)
(* Vocabulary of the interpreter's properties.                             *)
(***************************************************************************)
\* the interpreter was given, for the vocabulary module, a response with
\* the heading "1. Academic Vocabulary:" followed by bullet lines that
\* all begin with '-' or the bullet character
InterpretedOutline ==
    /\ interp.called
    /\ interp.module = "vocabulary"
    /\ interp.outline.given
    /\ \A i \in DOMAIN interp.outline.bullets :
            interp.outline.bullets[i].marker \in { << "-" >>, << Bullet >> }

\* the items of the bullet lines as written, and up to their first ',' or
\* ';', in the order of the lines
ItemsVerbatim ==
    [i \in DOMAIN interp.outline.bullets |->
        interp.outline.bullets[i].item.first
            \o interp.outline.bullets[i].item.rest]

FirstTokens ==
    LET named == SelectSeq(interp.outline.bullets,
                    LAMBDA b : b.item.first # << >>)
    IN  [i \in DOMAIN named |-> named[i].item.first]

\* the response is a string without a line that is a numbered heading
NoHeading(response) ==
    /\ response.type = "string"
    /\ \A line \in SetOf(split(response.chars, { Newline })) :
            ~MatchesHeading(trim(line))

(***************************************************************************)
(* C16.  As claimed: for a response with the heading "1. Academic          *)
(* Vocabulary:" followed by bullet lines with an item each, the academic   *)
(* vocabulary of the vocabulary module is the list of the items as they    *)
(* are written after the markers, in order.                                *)
(***************************************************************************)
C16_AsClaimed ==
    (/\ InterpretedOutline
     /\ \A i \in DOMAIN ItemsVerbatim : ItemsVerbatim[i] # << >>)
        => /\ ~interp.threw
           /\ interp.result.structured.academicVocabulary = ItemsVerbatim

(***************************************************************************)
(* C16, amended.  For a response in which "1. Academic Vocabulary:" is     *)
(* the only heading named 'academic', followed by lines that begin with    *)
(* '-' or the bullet character, the academic vocabulary is the list, in    *)
(* order, of what each line holds between its marker and its first ',' or  *)
(* ';', without the white space around it; a line that holds nothing       *)
(* there adds no item.  It is the items verbatim when no item has a ','    *)
(* or a ';'.                                                               *)
(***************************************************************************)
C16_FirstTokensKept ==
    InterpretedOutline
        => /\ ~interp.threw
           /\ interp.result.processed
           /\ interp.result.structured.academicVocabulary = FirstTokens

\* two bullet lines, the first with a ',' in its item: two items, and not
\* the items verbatim
C16_Witness ==
    /\ InterpretedOutline
    /\ Len(interp.outline.bullets) = 2
    /\ interp.outline.bullets[1].marker = << Bullet >>
    /\ interp.outline.bullets[1].item.rest # << >>
    /\ Len(interp.result.structured.academicVocabulary) = 2
    /\ interp.result.structured.academicVocabulary # ItemsVerbatim

(***************************************************************************)
(* C17.  processModuleResponse does not throw, whatever the module and     *)
(* the raw response are, and the result it returns holds the raw response  *)
(* as it was given, also when processing fails.                            *)
(***************************************************************************)
C17_NeverThrowsKeepsRaw ==
    interp.called
        => /\ ~interp.threw
           /\ "rawResponse" \in DOMAIN interp.result
           /\ interp.result.rawResponse = interp.response
           /\ interp.result.module = interp.module

\* the response was undefined, processing failed and the result holds it
C17_Witness ==
    /\ interp.called
    /\ interp.module = "grammar"
    /\ interp.response = UndefinedValue
    /\ ~interp.result.processed
    /\ interp.result.rawResponse = UndefinedValue

(***************************************************************************)
(* C18.  As claimed: when the raw response is the empty string, or has no  *)
(* heading at all, so that nothing is extracted from it, the result of     *)
(* processModuleResponse carries an error.                                 *)
(***************************************************************************)
C18_AsClaimed ==
    (interp.called /\ NoHeading(interp.response))
        => "error" \in DOMAIN interp.result

(***************************************************************************)
(* C19.  Every module entry of every report (the one being built, the      *)
(* ones returned and the ones in the cache) has either the structured      *)
(* data or an error: never both, never neither.                            *)
(***************************************************************************)
OneOfFieldsOrError(report) ==
    \A m \in DOMAIN report.entries :
        ("structured" \in DOMAIN report.entries[m])
            # ("error" \in DOMAIN report.entries[m])

C19_FieldsXorError ==
    /\ OneOfFieldsOrError(call.results)
    /\ \A i \in DOMAIN history : OneOfFieldsOrError(history[i].report)
    /\ \A k \in DOMAIN cache : OneOfFieldsOrError(cache[k])

\* a report of two entries, one whose processing failed and one whose
\* generateContent call threw
C19_Witness ==
    /\ Len(history) = 1
    /\ LET e == history[1].report.entries IN
       /\ Cardinality(DOMAIN e) = 2
       /\ \E m \in DOMAIN e :
            "processed" \in DOMAIN e[m] /\ ~e[m].processed
       /\ \E m \in DOMAIN e : "processed" \notin DOMAIN e[m]

(***************************************************************************)
(* C21.  As claimed: analyzeText leaves the array the caller passed as     *)
(* options.modules as it was: when the invocation has settled (cache hit,  *)
(* miss or validation error) the array holds the same elements in the      *)
(* same order as when it was passed.                                       *)
(***************************************************************************)
C21_AsClaimed ==
    \A i \in DOMAIN history :
        history[i].options.given
            => history[i].modulesAfter = history[i].options.modules

(***************************************************************************)
(* Vocabulary of the properties of generateContent's retries.              *)
(***************************************************************************)
\* the answer makes the attempt return the text of the first part
IsAnswer(resp) ==
    /\ resp.kind = "http" /\ resp.status = 200
    /\ resp.candidate /\ resp.finishReason # "SAFETY" /\ resp.part

\* the answers the specification calls fatal: bad request, auth error,
\* safety block
IsFatalAnswer(resp) ==
    \/ resp.kind = "http" /\ resp.status \in { 400, 403 }
    \/ IsSafetyBlock(resp)

\* a failed attempt that is to be retried
IsRetryableAnswer(resp) == ~IsAnswer(resp) /\ ~IsFatalAnswer(resp)

(***************************************************************************)
(* C22.  As claimed: within one generateContent call the k-th backoff      *)
(* delay lasts retryDelay * k milliseconds, and a delay follows the k-th   *)
(* attempt exactly when that attempt failed in a retryable way and was not *)
(* the last one allowed: none after attempt retryAttempts, none after a    *)
(* fatal answer (400, 403, safety block), none after an answer.            *)
(***************************************************************************)
C22_AsClaimed ==
    \A g \in Generations :
        /\ Len(g.delays) <= Len(g.responses)
        /\ \A k \in DOMAIN g.delays : g.delays[k] = retryDelay * k
        /\ \A k \in DOMAIN g.responses :
                (k \in DOMAIN g.delays)
                    <=> (IsRetryableAnswer(g.responses[k])
                            /\ k < retryAttempts)

(***************************************************************************)
(* C23.  When fetch rejects (a transport failure) on every attempt,        *)
(* generateContent waits retryDelay * k after the k-th attempt and tries   *)
(* again until it has issued retryAttempts fetches; then it throws         *)
(* 'Analysis failed after 3 attempts: ' followed by the message of the     *)
(* last rejection, without a further delay or fetch.                       *)
(***************************************************************************)
C23_TransportFailuresExhaust ==
    \A g \in Generations :
        LET n == Len(g.responses) IN
        (n >= 1 /\ \A i \in 1 .. n : g.responses[i].kind = "reject")
            => /\ n <= retryAttempts
               /\ g.fetches \in { n, n + 1 }
               /\ g.fetches <= retryAttempts
               /\ n < retryAttempts
                    => /\ g.result = "pending"
                       /\ g.delays = [k \in 1 .. n |-> retryDelay * k]
               /\ n = retryAttempts
                    => /\ g.result = "throw"
                       /\ g.message
                            = AnalysisFailedMessage(g.responses[n].message)
                       /\ g.fetches = retryAttempts
                       /\ g.delays
                            = [k \in 1 .. n - 1 |-> retryDelay * k]

\* three rejected fetches, two delays, and the terminal error thrown
C23_Witness ==
    /\ Len(lastGen.responses) = retryAttempts
    /\ \A i \in DOMAIN lastGen.responses :
            lastGen.responses[i].kind = "reject"
    /\ lastGen.fetches = retryAttempts
    /\ Len(lastGen.delays) = retryAttempts - 1
    /\ lastGen.result = "throw"
    /\ Includes(lastGen.message, "Failed to ")

(***************************************************************************)
(* C24.  As claimed: for the lines of a section that begin with a marker   *)
(* ('-', the bullet character or '<n>.'), extractWordList returns, in      *)
(* order, what each line holds between its whole marker and its first ','  *)
(* or ';': no item holds a part of a marker, whichever of the three kinds  *)
(* the marker is.                                                          *)
(***************************************************************************)
C24_AsClaimed ==
    (interp.called /\ interp.module = "vocabulary" /\ interp.outline.given)
        => /\ ~interp.threw
           /\ interp.result.structured.academicVocabulary = FirstTokens

(***************************************************************************)
(* Vocabulary of the cache's properties.                                   *)
(***************************************************************************)
\* at least one module of the report has an entry without an error
SomeModuleSucceeded(report) ==
    \E m \in DOMAIN report.entries : "error" \notin DOMAIN report.entries[m]

(***************************************************************************)
(* C25.  As claimed: the cache holds only reports in which at least one    *)
(* requested module has an entry without an error; after an invocation     *)
(* whose modules all failed, a later invocation with the same text and     *)
(* modules makes the remote calls again.                                   *)
(***************************************************************************)
C25_AsClaimed ==
    /\ \A k \in DOMAIN cache : SomeModuleSucceeded(cache[k])
    /\ \A i, j \in DOMAIN history :
            (/\ i < j
             /\ RanTheLoop(history[i])
             /\ ~SomeModuleSucceeded(history[i].report)
             /\ history[j].text = history[i].text
             /\ history[j].options = history[i].options)
                => history[j].fetches > 0

(***************************************************************************)
(* C28.  As claimed: an invocation that is served from the cache (it       *)
(* returns without a waitIfNeeded call) returns a report that was made     *)
(* for its own text and its own set of modules.                            *)
(***************************************************************************)
C28_AsClaimed ==
    \A j \in DOMAIN history :
        (~history[j].threw /\ history[j].waits = 0)
            => /\ history[j].report.text = history[j].text
               /\ DOMAIN history[j].report.entries
                    = SetOf(Requested(history[j].options))

(***************************************************************************)
(* C27.  Whatever the endpoint answers to each fetch (any HTTP status, a   *)
(* rejected fetch, a body without candidates or parts, any finish reason), *)
(* a generateContent call issues at most retryAttempts fetches, and once   *)
(* called it settles: it returns or it throws.                             *)
(***************************************************************************)
C27_BoundedAndSettles ==
    /\ [](\A g \in Generations : g.fetches <= retryAttempts)
    /\ (gen.result = "pending")
            ~> (gen.result = "none" /\ lastGen.result \in {"return", "throw"})

\* three fetches answered by a throttle, a server error and a body without
\* candidates, and the call has thrown
C27_Witness ==
    /\ gen.result = "none"
    /\ lastGen.fetches = retryAttempts
    /\ Len(lastGen.responses) = retryAttempts
    /\ IsThrottle(lastGen.responses[1])
    /\ lastGen.responses[2].status = 500
    /\ ~lastGen.responses[3].candidate
    /\ lastGen.responses[3].status = 200
    /\ lastGen.result = "throw"

(***************************************************************************)
(* Vocabulary of the properties of the outbound requests.                  *)
(***************************************************************************)
\* consecutive times of the sequence are at least minInterval apart
Spaced(times) ==
    \A k \in 1 .. Len(times) - 1 : times[k + 1] - times[k] >= minInterval

(***************************************************************************)
(* C29.  As claimed: the fetches an analyzeText invocation issues, the     *)
(* retries inside generateContent included, are issued at least            *)
(* minInterval milliseconds after one another.                             *)
(***************************************************************************)
C29_AsClaimed ==
    /\ Spaced(call.fetchTimes)
    /\ \A i \in DOMAIN history : Spaced(history[i].fetchTimes)

(***************************************************************************)
(* C26.  As claimed: with invocations of analyzeText in flight             *)
(* concurrently on one engine, the times the shared RateLimiter records    *)
(* one after another are at least minInterval milliseconds apart.          *)
(***************************************************************************)
C26_AsClaimed ==
    Spaced([k \in DOMAIN recorded |-> recorded[k].time])

(***************************************************************************)
(* C30.  As claimed: of two invocations with the same text and modules     *)
(* (the same cache key) that were in flight at the same time, only one     *)
(* has issued fetches.                                                     *)
(***************************************************************************)
C30_AsClaimed ==
    \A i, j \in DOMAIN history :
        (/\ i < j
         /\ ~history[i].threw
         /\ ~history[j].threw
         /\ history[i].text = history[j].text
         /\ history[i].cacheKey = history[j].cacheKey
         /\ history[i].invokedAt < history[j].settledAt
         /\ history[j].invokedAt < history[i].settledAt)
            => \/ history[i].fetchTimes = << >>
               \/ history[j].fetchTimes = << >>

=============================================================================
